---- MODULE Spec2Model ----
(***************************************************************************)
(* Sales Dojo (src/app.py): a Streamlit script.  Every UI event reruns the *)
(* whole script from the top against st.session_state and the widget       *)
(* state.  One action of this model is one UI event followed by one        *)
(* complete run of the script; a run that ends in st.rerun() leaves        *)
(* rerun_pending set, and the only step enabled then is the follow-up run  *)
(* with no widget triggered.                                               *)
(*                                                                         *)
(* Abstractions.  A text is a sequence of tagged segments, the empty       *)
(* sequence being Python's "" (falsy).  A recorded clip is its length in   *)
(* bytes.  A model reply is the raw text the API returned: invalid JSON, a *)
(* JSON array, or a JSON object given as a function from keys to strings.  *)
(* The timestamp column of a scorecard row is left out.                    *)
(*                                                                         *)
(* Widget state follows Streamlit: a widget is identified by its key; an   *)
(* audio widget that a completed run (normal end or st.rerun()) did not    *)
(* render loses its value, a run cut short by st.stop() keeps it.          *)
(***************************************************************************)
EXTENDS Integers, Sequences, FiniteSets, TLC

\* ---- bounds of the model -------------------------------------------------
MaxTurns == 2      \* no clip is recorded once turn_count has reached this
MaxFiles == 2      \* PDFs the Drive folder may list
MaxRows == 1       \* rows the sheet may hold before the first grading

\* ---- program constants ---------------------------------------------------
MinAudioBytes == 100

\* "variants use 3 or 10" (spec 4.2); src/app.py itself configures no limit.
TurnLimit == 3

\* ---- values --------------------------------------------------------------
Realtor == "Roleplay as Realtor"
Homebuyer == "Roleplay as Homebuyer"
Modes == {Realtor, Homebuyer}
Names == {"", "Ann"}

None == "None"
EmptyText == << >>
NoAudio == -1
AudioSizes == {MinAudioBytes - 1, MinAudioBytes}
NoKey == << >>

NoScore == -1
Scores == {7}
ErrorFeedback == <<"Error generating grade">>

DefaultOpening == "Hello."
DefaultTip == "Use the 'Feel, Felt, Found' method."
NoTranscript == "(No transcript available)"

\* ---- raw model replies ---------------------------------------------------
\* A reply is the text the model returned: invalid JSON, a JSON array, or a
\* JSON object; an object gives each key a string, Missing when it has no
\* such key.
Missing == "<missing>"
Keys == {"response_text", "strategy_tip", "user_transcript", "rebuttal_text", "why_it_works"}
JsonObject(present) ==
    [syntax |-> "object",
     obj |-> [k \in Keys |-> IF k \in present
                             THEN (CASE k = "response_text" -> "a"
                                     [] k = "strategy_tip" -> "tip"
                                     [] k = "user_transcript" -> "u"
                                     [] k = "rebuttal_text" -> "r"
                                     [] OTHER -> "w")
                             ELSE Missing]]
Garbage == [syntax |-> "invalid", obj |-> [k \in Keys |-> Missing]]
JsonArray == [syntax |-> "array", obj |-> [k \in Keys |-> Missing]]
NoReply == [syntax |-> "none", obj |-> [k \in Keys |-> Missing]]

Mode1Replies == {Garbage, JsonArray, JsonObject({"response_text"}),
                 JsonObject({"response_text", "strategy_tip"})}
Mode2Replies == {Garbage, JsonArray, JsonObject({"rebuttal_text"}),
                 JsonObject({"rebuttal_text", "why_it_works"})}

\* A grading reply: its score is NoScore and a text Missing when the object
\* lacks that key.
GradeReplies ==
    {[syntax |-> "invalid", score |-> NoScore, feedback_summary |-> Missing,
      magic_words |-> Missing]}
    \cup {[syntax |-> "object", score |-> n, feedback_summary |-> "fs", magic_words |-> m] :
            n \in Scores \cup {NoScore}, m \in {"mw", Missing}}

\* json.loads: raises on text that is not JSON, returns the value otherwise.
json_loads(raw) == [raised |-> raw.syntax = "invalid", value |-> raw]

\* dict.get(key, default); it raises AttributeError on a list.
Get(value, key, default) ==
    IF value.obj[key] # Missing THEN value.obj[key] ELSE default

\* ---- state ---------------------------------------------------------------
VARIABLES
    chat_history, turn_count, roleplay_active, session_started, current_tip,
    kb_text, file_names, mode_2_chat,
    graded, final_score, final_feedback,    \* set by the FINAL GRADING block
    drive_service,                          \* st.cache_resource of get_drive_service
    agent_name, mode, audio, audio_key,     \* widget state
    sheet,                                  \* the remote spreadsheet
    rerun_pending,                          \* the last run ended in st.rerun()
    event,                                  \* the UI event of the last run
    calls, shown, rendered,                 \* what the last run called, showed, rendered
    fetch, reply, submitted, model_grade,   \* what the last run fetched, received, read
    graded_transcript,                      \* the transcript final_score was computed from
    secrets,                                \* the keys st.secrets holds
    active_model                            \* the model name chosen once per session

vars == << chat_history, turn_count, roleplay_active, session_started, current_tip,
           kb_text, file_names, mode_2_chat, graded, final_score, final_feedback,
           drive_service, agent_name, mode, audio, audio_key, sheet, rerun_pending,
           event, calls, shown, rendered, fetch, reply, submitted, model_grade,
           graded_transcript, secrets, active_model >>

NoFetch == [attempted |-> FALSE, listOk |-> TRUE, items |-> << >>, failAt |-> 0,
            text |-> EmptyText, files |-> << >>]
NoGrade == [score |-> NoScore, feedback |-> EmptyText]

\* The state as one record, so that the script's blocks compose.
Cur == [chat_history |-> chat_history, turn_count |-> turn_count,
        roleplay_active |-> roleplay_active, session_started |-> session_started,
        current_tip |-> current_tip, kb_text |-> kb_text, file_names |-> file_names,
        mode_2_chat |-> mode_2_chat, graded |-> graded, final_score |-> final_score,
        final_feedback |-> final_feedback, drive_service |-> drive_service,
        agent_name |-> agent_name, mode |-> mode, audio |-> audio,
        audio_key |-> audio_key, sheet |-> sheet, ctl |-> "run",
        calls |-> {}, shown |-> {}, rendered |-> {}, fetch |-> NoFetch,
        reply |-> NoReply, submitted |-> NoAudio, model_grade |-> NoGrade,
        graded_transcript |-> graded_transcript, secrets |-> secrets,
        active_model |-> active_model]

Show(s, n) == [s EXCEPT !.shown = @ \cup {n}]
Call(s, c) == [s EXCEPT !.calls = @ \cup {c}]
Render(s, w) == [s EXCEPT !.rendered = @ \cup {w}]
Stop(s) == [s EXCEPT !.ctl = "stop"]
Rerun(s) == [s EXCEPT !.ctl = "rerun"]
\* An exception no handler catches ends the run with the traceback on the page.
Crash(s) == [Show(s, "exception") EXCEPT !.ctl = "crash"]

\* ---- secrets and model selection ------------------------------------------
\* st.secrets: the model API key, the [drive] section and its folder_id, and
\* the service-account credentials under [connections.gsheets].
SecretKeys == {"GOOGLE_API_KEY", "drive", "drive.folder_id", "connections.gsheets"}
SecretSets == {S \in SUBSET SecretKeys : "drive.folder_id" \in S => "drive" \in S}

\* Check for Secrets: the run stops on the setup message unless both
\* required_secrets are present.
required_secrets == {"GOOGLE_API_KEY", "drive"}

SecretsCheck(s) ==
    IF required_secrets \subseteq s.secrets THEN s
    ELSE Stop(Show(s, "setup_needed"))

\* get_best_model_name: the first preferred name the API lists, else the
\* first listed name, else (nothing listed, or the call failed) the default.
DefaultModel == "models/gemini-1.5-flash"
preferences == <<"models/gemini-1.5-flash", "models/gemini-1.5-flash-001",
                 "models/gemini-1.5-flash-latest", "models/gemini-1.5-pro",
                 "models/gemini-pro">>
ModelListings == {[ok |-> FALSE, models |-> << >>], [ok |-> TRUE, models |-> << >>],
                  [ok |-> TRUE, models |-> <<"models/gemini-1.5-flash-001",
                                             "models/gemini-1.5-flash">>]}

Range(seq) == {seq[i] : i \in 1..Len(seq)}
get_best_model_name(l) ==
    IF ~l.ok THEN DefaultModel
    ELSE LET hits == {i \in 1..Len(preferences) : preferences[i] \in Range(l.models)}
         IN IF hits # {} THEN preferences[CHOOSE i \in hits : \A j \in hits : i <= j]
            ELSE IF l.models # << >> THEN l.models[1]
            ELSE DefaultModel

SelectModel(s) ==
    IF s.ctl # "run" \/ s.active_model # None THEN {s}
    ELSE {[Call(s, "list_models") EXCEPT !.active_model = get_best_model_name(l)] :
            l \in ModelListings}

\* ---- Google Drive --------------------------------------------------------
FileNames == <<"f1", "f2", "f3", "f4">>
Listings == {SubSeq(FileNames, 1, n) : n \in {0, MaxFiles}}
\* What the remote store does during one fetch: whether the list call
\* succeeds, the PDFs it lists, and the file whose download or text
\* extraction fails (0: none).
DriveOutcomes ==
    UNION {{[listOk |-> TRUE, items |-> l, failAt |-> i] : i \in 0..Len(l)} : l \in Listings}
    \cup {[listOk |-> FALSE, items |-> << >>, failAt |-> 0]}

\* get_drive_service: built once, the result (None included) is cached.
get_drive_service(cache, buildOk) ==
    IF cache # "unset" THEN cache
    ELSE IF buildOk THEN "ok" ELSE None

\* The download loop: full_text and file_list_summary after items i..Len(items),
\* or "raised" when one of them fails.
RECURSIVE DownloadAll(_, _, _, _, _)
DownloadAll(items, i, failAt, full_text, file_list_summary) ==
    IF i > Len(items) THEN [raised |-> FALSE, text |-> full_text, files |-> file_list_summary]
    ELSE IF i = failAt THEN [raised |-> TRUE, text |-> full_text, files |-> file_list_summary]
    ELSE DownloadAll(items, i + 1, failAt,
                     Append(full_text, items[i]), Append(file_list_summary, items[i]))

load_knowledge_base_from_drive(service, d) ==
    IF service = None THEN [text |-> EmptyText, files |-> << >>, contacted |-> FALSE]
    ELSE IF ~d.listOk THEN [text |-> EmptyText, files |-> << >>, contacted |-> TRUE]
    ELSE IF d.items = << >> THEN [text |-> EmptyText, files |-> << >>, contacted |-> TRUE]
    ELSE LET r == DownloadAll(d.items, 1, d.failAt, EmptyText, << >>)
         IN IF r.raised THEN [text |-> EmptyText, files |-> << >>, contacted |-> TRUE]
            ELSE [text |-> r.text, files |-> r.files, contacted |-> TRUE]

\* One call of load_knowledge_base_from_drive from the script: the service
\* cache, the call log and the record of the fetch.
Fetched(s, buildOk, d) ==
    LET svc == get_drive_service(s.drive_service, buildOk)
        r == load_knowledge_base_from_drive(svc, d)
        s1 == [s EXCEPT !.drive_service = svc,
                        !.fetch = [attempted |-> TRUE, listOk |-> d.listOk, items |-> d.items,
                                   failAt |-> d.failAt, text |-> r.text, files |-> r.files]]
    IN IF r.contacted THEN Call(s1, "drive") ELSE s1

\* The oracles a fetch from state s may meet.
\* Building the service raises when the credentials are not in the secrets.
BuildOutcomes(s) ==
    IF s.drive_service # "unset" THEN {TRUE}
    ELSE IF "connections.gsheets" \in s.secrets THEN BOOLEAN ELSE {FALSE}
FetchOutcomes(s) ==
    {Fetched(s, b, d) : b \in BuildOutcomes(s), d \in DriveOutcomes}

\* INITIALIZE KB: runs at the top of every script run while kb_text is empty.
StoreKB(s) ==
    IF s.fetch.text # EmptyText
    THEN [s EXCEPT !.kb_text = s.fetch.text, !.file_names = s.fetch.files]
    ELSE [s EXCEPT !.kb_text = EmptyText, !.file_names = << >>]

InitializeKB(s) ==
    IF s.ctl # "run" \/ s.kb_text # EmptyText THEN {s}
    ELSE IF "drive.folder_id" \notin s.secrets THEN {Crash(s)}
    ELSE {StoreKB(t) : t \in FetchOutcomes(s)}

\* ---- sidebar -------------------------------------------------------------
\* "Reload Training Data": fetch again; store and rerun only when text came back.
ReloadTrainingData(s) ==
    IF s.fetch.text # EmptyText
    THEN Rerun([s EXCEPT !.kb_text = s.fetch.text, !.file_names = s.fetch.files])
    ELSE Show(s, "could_not_load")

\* Mutant: the reset forgets the turn counter.
ResetSession_KeepsCount(s) ==
    Rerun([s EXCEPT !.chat_history = << >>,
                    !.roleplay_active = TRUE,
                    !.session_started = FALSE,
                    !.current_tip = None,
                    !.mode_2_chat = << >>])

\* "Reset Session".
ResetSession(s) ==
    Rerun([s EXCEPT !.chat_history = << >>,
                    !.turn_count = 0,
                    !.roleplay_active = TRUE,
                    !.session_started = FALSE,
                    !.current_tip = None,
                    !.mode_2_chat = << >>])

Sidebar(s, ev) ==
    LET afterReload == IF ev = "reload" /\ s.ctl = "run"
                       THEN {ReloadTrainingData(t) : t \in FetchOutcomes(s)}
                       ELSE {s}
    IN {IF t.ctl = "run" /\ ev = "reset" THEN ResetSession(t) ELSE t : t \in afterReload}

\* ---- the audio widget ----------------------------------------------------
\* st.audio_input(key=...): the widget keeps its clip while its key is the
\* same; under a new key it is a new, empty widget.
AudioInput(s, key) ==
    IF s.audio_key = key THEN Render(s, "audio")
    ELSE [Render(s, "audio") EXCEPT !.audio = NoAudio, !.audio_key = key]

\* End of a script run: widgets a completed run did not render are dropped.
EndRun(s) ==
    IF "audio" \notin s.rendered /\ s.ctl \in {"run", "rerun"}
    THEN [s EXCEPT !.audio = NoAudio, !.audio_key = NoKey]
    ELSE s

\* ---- grading -------------------------------------------------------------
\* "\n".join(f"{role}: {content}") over the session's turns.
Transcript(history) == [i \in 1..Len(history) |-> <<history[i].role, history[i].content>>]

\* conn.read(ttl=0) and conn.update(data=...): the whole sheet is read and
\* the whole sheet is overwritten.
conn_read(rows) == rows
\* Mutant: the update is given the new row alone.
conn_update_OnlyNewRow(rows, data) == <<data[Len(data)]>>
conn_update(rows, data) == data

\* calculate_final_grade_and_save: what it returns and the state it leaves.
\* g is the grading reply; readOk and updateOk say whether the spreadsheet
\* read and update succeed.
GradeError(s) == [s |-> s, score |-> 0, feedback |-> ErrorFeedback]

calculate_final_grade_and_save(s, g, readOk, updateOk) ==
    LET transcript == Transcript(s.chat_history)
        s1 == [Call(s, "grade_model") EXCEPT !.graded_transcript = transcript]
    IN IF g.syntax = "invalid" THEN GradeError(s1)
       ELSE IF g.score = NoScore THEN GradeError(s1)
       ELSE IF g.feedback_summary = Missing \/ g.magic_words = Missing THEN GradeError(s1)
       ELSE LET score_ == g.score
                feedback_ == <<g.feedback_summary, g.magic_words>>
                s2 == Call([s1 EXCEPT !.model_grade =
                              [score |-> score_, feedback |-> feedback_]],
                           "sheet_read")
            IN IF ~readOk THEN GradeError(s2)
               ELSE LET existing_data == conn_read(s2.sheet)
                        new_row == [agent |-> s.agent_name, score |-> score_,
                                    feedback |-> feedback_]
                        updated_df == Append(existing_data, new_row)
                        s3 == Call(s2, "sheet_update")
                    IN IF ~updateOk THEN GradeError(s3)
                       ELSE [s |-> [s3 EXCEPT !.sheet = conn_update(s3.sheet, updated_df)],
                             score |-> score_, feedback |-> feedback_]

\* The score display of the FINAL GRADING block.
ShowResults(s) ==
    IF s.final_score # NoScore THEN Show(Show(s, "final_score"), "results_saved") ELSE s

\* FINAL GRADING, once roleplay_active is false.
FinalGrading(s, g, readOk, updateOk) ==
    IF s.roleplay_active THEN s
    ELSE LET s1 == Show(s, "session_complete")
         IN IF ~s1.graded
            THEN LET r == calculate_final_grade_and_save(s1, g, readOk, updateOk)
                 IN ShowResults([r.s EXCEPT !.graded = TRUE,
                                            !.final_score = r.score,
                                            !.final_feedback = r.feedback])
            ELSE ShowResults(s1)

GradingOutcomes(s) ==
    IF s.ctl # "run" THEN {s}
    ELSE IF s.roleplay_active \/ s.graded THEN {FinalGrading(s, CHOOSE g \in GradeReplies : TRUE, TRUE, TRUE)}
    ELSE {FinalGrading(s, g, r, u) : g \in GradeReplies, r \in BOOLEAN, u \in BOOLEAN}

\* ---- mode 1: roleplay as realtor ------------------------------------------
\* "Start Roleplay": the buyer speaks first.
StartRoleplay(s, raw, ttsOk) ==
    LET s1 == [Call(s, "model") EXCEPT !.reply = raw]
        p == json_loads(raw)
    IN IF p.raised \/ p.value.syntax # "object" THEN Show(s1, "start_error")
       ELSE LET opening_line == Get(p.value, "response_text", DefaultOpening)
                s2 == [s1 EXCEPT !.current_tip = Get(p.value, "strategy_tip", DefaultTip),
                                 !.chat_history = Append(@, [role |-> "Buyer",
                                                             content |-> opening_line]),
                                 !.session_started = TRUE,
                                 !.turn_count = 1]
                s3 == Call(s2, "tts")
            IN Rerun(IF ttsOk THEN Show(s3, "autoplay") ELSE s3)

\* Mutant: the agent's turn is recorded before the model is asked.
Mode1Turn_AgentFirst(s, raw, ttsOk) ==
    LET s0 == [s EXCEPT !.submitted = s.audio]
    IN IF s.audio < MinAudioBytes THEN Stop(Show(s0, "no_audio"))
       ELSE LET s1 == [Call(s0, "model") EXCEPT
                         !.reply = raw,
                         !.chat_history = Append(@, [role |-> "Agent",
                                                     content |-> "(Audio Input)"])]
                p == json_loads(raw)
            IN IF p.raised \/ p.value.syntax # "object" THEN Show(s1, "ai_error")
               ELSE LET ai_text == Get(p.value, "response_text", "")
                        s2 == Call([s1 EXCEPT !.current_tip =
                                      Get(p.value, "strategy_tip", "")], "tts")
                        s3 == [s2 EXCEPT
                                 !.chat_history =
                                     Append(@, [role |-> "Buyer", content |-> ai_text]),
                                 !.turn_count = @ + 1]
                    IN Rerun(IF ttsOk THEN Show(s3, "autoplay") ELSE s3)

\* Mutant: the handler ends the session by itself once a turn limit is reached.
Mode1Turn_GradeAtLimit(s, raw, ttsOk) ==
    LET s0 == [s EXCEPT !.submitted = s.audio]
    IN IF s.audio < MinAudioBytes THEN Stop(Show(s0, "no_audio"))
       ELSE LET s1 == [Call(s0, "model") EXCEPT !.reply = raw]
                p == json_loads(raw)
            IN IF p.raised \/ p.value.syntax # "object" THEN Show(s1, "ai_error")
               ELSE LET ai_text == Get(p.value, "response_text", "")
                        s2 == Call([s1 EXCEPT !.current_tip =
                                      Get(p.value, "strategy_tip", "")], "tts")
                        s3 == [s2 EXCEPT
                                 !.chat_history =
                                     Append(Append(@, [role |-> "Agent",
                                                       content |-> "(Audio Input)"]),
                                            [role |-> "Buyer", content |-> ai_text]),
                                 !.turn_count = @ + 1,
                                 !.roleplay_active = (s.turn_count + 1 < 2)]
                    IN Rerun(IF ttsOk THEN Show(s3, "autoplay") ELSE s3)

\* The audio handler of the main loop.
Mode1Turn(s, raw, ttsOk) ==
    LET s0 == [s EXCEPT !.submitted = s.audio]
    IN IF s.audio < MinAudioBytes THEN Stop(Show(s0, "no_audio"))
       ELSE LET s1 == [Call(s0, "model") EXCEPT !.reply = raw]
                p == json_loads(raw)
            IN IF p.raised \/ p.value.syntax # "object" THEN Show(s1, "ai_error")
               ELSE LET ai_text == Get(p.value, "response_text", "")
                        s2 == Call([s1 EXCEPT !.current_tip =
                                      Get(p.value, "strategy_tip", "")], "tts")
                        s3 == [s2 EXCEPT
                                 !.chat_history =
                                     Append(Append(@, [role |-> "Agent",
                                                       content |-> "(Audio Input)"]),
                                            [role |-> "Buyer", content |-> ai_text]),
                                 !.turn_count = @ + 1]
                    IN Rerun(IF ttsOk THEN Show(s3, "autoplay") ELSE s3)

\* "Finish & Grade Session".
FinishAndGrade(s) == Rerun([s EXCEPT !.roleplay_active = FALSE])

\* Mutant: the audio handler does not look at roleplay_active.
MainLoop_NoActiveGuard(s, ev) ==
    LET s1 == Render(AudioInput(s, <<Realtor, s.turn_count>>), "finish")
    IN IF ev = "finish" THEN {FinishAndGrade(s1)}
       ELSE IF s1.audio # NoAudio
       THEN {Mode1Turn(s1, raw, t) : raw \in Mode1Replies, t \in BOOLEAN}
       ELSE {s1}

MainLoop(s, ev) ==
    LET s1 == Render(AudioInput(s, <<Realtor, s.turn_count>>), "finish")
    IN IF ev = "finish" THEN {FinishAndGrade(s1)}
       ELSE IF s1.audio # NoAudio /\ s1.roleplay_active
       THEN {Mode1Turn(s1, raw, t) : raw \in Mode1Replies, t \in BOOLEAN}
       ELSE {s1}

StartBranch(s, ev) ==
    LET s1 == Render(s, "start")
    IN IF ev = "start"
       THEN {StartRoleplay(s1, raw, t) : raw \in Mode1Replies, t \in BOOLEAN}
       ELSE {s1}

Mode1(s, ev) ==
    IF s.agent_name = "" THEN {Stop(Show(s, "enter_name"))}
    ELSE IF s.kb_text = EmptyText THEN {Stop(Show(s, "kb_empty"))}
    ELSE UNION {GradingOutcomes(t) :
                  t \in IF ~s.session_started THEN StartBranch(s, ev) ELSE MainLoop(s, ev)}

\* ---- mode 2: roleplay as homebuyer ----------------------------------------
Mode2Turn(s, raw, ttsOk) ==
    LET s0 == [s EXCEPT !.submitted = s.audio]
        s1 == [Call(s0, "model") EXCEPT !.reply = raw]
        p == json_loads(raw)
    IN IF p.raised \/ p.value.syntax # "object" THEN Show(s1, "error")
       ELSE IF p.value.obj["rebuttal_text"] = Missing
               \/ p.value.obj["why_it_works"] = Missing THEN Show(s1, "error")
       ELSE LET transcript == Get(p.value, "user_transcript", NoTranscript)
                rebuttal == p.value.obj["rebuttal_text"]
                explanation == p.value.obj["why_it_works"]
                s2 == Call(s1, "tts")
            IN Rerun([s2 EXCEPT
                        !.mode_2_chat = Append(@, [user_text |-> transcript,
                                                   rebuttal |-> rebuttal,
                                                   explanation |-> explanation,
                                                   audio |-> ttsOk]),
                        !.turn_count = @ + 1])

\* The speech service's answers within one rebuttal list: it works or it is
\* down, and stays so until the list is cleared.
SpeechOutcomes(s) ==
    IF s.mode_2_chat = << >> THEN BOOLEAN ELSE {s.mode_2_chat[1].audio}

Mode2(s, ev) ==
    IF s.kb_text = EmptyText THEN {Stop(Show(s, "kb_empty"))}
    ELSE LET s1 == AudioInput(s, <<Homebuyer, s.turn_count>>)
         IN IF s1.audio # NoAudio /\ s1.kb_text # EmptyText
            THEN {Mode2Turn(s1, raw, t) : raw \in Mode2Replies, t \in SpeechOutcomes(s1)}
            ELSE {s1}

\* ---- one run of the script ------------------------------------------------
Body(s, ev) ==
    IF s.ctl # "run" THEN {s}
    ELSE IF s.mode = Realtor THEN Mode1(s, ev) ELSE Mode2(s, ev)

Script(s, ev) ==
    LET selected == SelectModel(SecretsCheck(s))
        loaded == UNION {InitializeKB(m) : m \in selected}
    IN {EndRun(u) : u \in UNION {Body(t, ev) : t \in UNION {Sidebar(k, ev) : k \in loaded}}}

Commit(s, ev) ==
    /\ chat_history' = s.chat_history
    /\ turn_count' = s.turn_count
    /\ roleplay_active' = s.roleplay_active
    /\ session_started' = s.session_started
    /\ current_tip' = s.current_tip
    /\ kb_text' = s.kb_text
    /\ file_names' = s.file_names
    /\ mode_2_chat' = s.mode_2_chat
    /\ graded' = s.graded
    /\ final_score' = s.final_score
    /\ final_feedback' = s.final_feedback
    /\ drive_service' = s.drive_service
    /\ agent_name' = s.agent_name
    /\ mode' = s.mode
    /\ audio' = s.audio
    /\ audio_key' = s.audio_key
    /\ sheet' = s.sheet
    /\ rerun_pending' = (s.ctl = "rerun")
    /\ event' = ev
    /\ calls' = s.calls
    /\ shown' = s.shown
    /\ rendered' = s.rendered
    /\ fetch' = s.fetch
    /\ reply' = s.reply
    /\ submitted' = s.submitted
    /\ model_grade' = s.model_grade
    /\ graded_transcript' = s.graded_transcript
    /\ secrets' = s.secrets
    /\ active_model' = s.active_model

RunScript(s, ev) == \E t \in Script(s, ev) : Commit(t, ev)

\* ---- the UI events --------------------------------------------------------
\* The first page load, and the run st.rerun() asks for.
PageRun ==
    /\ rerun_pending
    /\ RunScript(Cur, IF event = "none" THEN "load" ELSE "rerun")

EnterName ==
    /\ ~rerun_pending
    /\ \E n \in Names \ {agent_name} : RunScript([Cur EXCEPT !.agent_name = n], "name")

SelectMode ==
    /\ ~rerun_pending
    /\ \E m \in Modes \ {mode} : RunScript([Cur EXCEPT !.mode = m], "mode")

SelectVoice ==
    /\ ~rerun_pending
    /\ RunScript(Cur, "voice")

ClickReload ==
    /\ ~rerun_pending
    /\ RunScript(Cur, "reload")

ClickReset ==
    /\ ~rerun_pending
    /\ RunScript(Cur, "reset")

ClickStart ==
    /\ ~rerun_pending
    /\ "start" \in rendered
    /\ RunScript(Cur, "start")

ClickFinish ==
    /\ ~rerun_pending
    /\ "finish" \in rendered
    /\ RunScript(Cur, "finish")

RecordAudio ==
    /\ ~rerun_pending
    /\ "audio" \in rendered
    /\ turn_count < MaxTurns
    /\ \E a \in AudioSizes : RunScript([Cur EXCEPT !.audio = a], "audio")

\* ---- the specification ----------------------------------------------------
OldRow == [agent |-> "Bob", score |-> 5, feedback |-> <<"old", "row">>]
InitialSheets == {[i \in 1..n |-> OldRow] : n \in {0, MaxRows}}

Init ==
    /\ chat_history = << >>
    /\ turn_count = 0
    /\ roleplay_active = TRUE
    /\ session_started = FALSE
    /\ current_tip = None
    /\ kb_text = EmptyText
    /\ file_names = << >>
    /\ mode_2_chat = << >>
    /\ graded = FALSE
    /\ final_score = NoScore
    /\ final_feedback = EmptyText
    /\ drive_service = "unset"
    /\ agent_name = ""
    /\ mode = Realtor
    /\ audio = NoAudio
    /\ audio_key = NoKey
    /\ sheet \in InitialSheets
    /\ rerun_pending = TRUE
    /\ event = "none"
    /\ calls = {}
    /\ shown = {}
    /\ rendered = {}
    /\ fetch = NoFetch
    /\ reply = NoReply
    /\ submitted = NoAudio
    /\ model_grade = NoGrade
    /\ graded_transcript = << >>
    /\ secrets \in SecretSets
    /\ active_model = None

Next ==
    \/ PageRun
    \/ EnterName
    \/ SelectMode
    \/ SelectVoice
    \/ ClickReload
    \/ ClickReset
    \/ ClickStart
    \/ ClickFinish
    \/ RecordAudio

Spec == Init /\ [][Next]_vars

\* ---- the claims -----------------------------------------------------------
ConversationUnchanged ==
    /\ chat_history' = chat_history
    /\ mode_2_chat' = mode_2_chat
    /\ turn_count' = turn_count
    /\ roleplay_active' = roleplay_active
    /\ session_started' = session_started
    /\ current_tip' = current_tip

\* C1: a script run in which the roleplay model's reply (start call, mode 1
\* turn or mode 2 turn) is not valid JSON leaves the turn lists, the turn
\* counter, the active flag and the coaching hint as they were.
C1_ParseFailureLeavesState ==
    [][(reply' # NoReply /\ json_loads(reply').raised) => ConversationUnchanged]_vars

\* A mode 1 turn of a started session met an unparsable reply.
C1_Witness ==
    /\ reply = Garbage
    /\ "ai_error" \in shown
    /\ chat_history # << >>
    /\ submitted >= MinAudioBytes

\* C2 (as claimed): outside a reset the turn counter goes up by exactly one
\* in a run that completes an exchange (a turn is appended to a turn list)
\* and is unchanged in every other run.
ExchangeCompleted ==
    \/ Len(chat_history') > Len(chat_history)
    \/ Len(mode_2_chat') > Len(mode_2_chat)

C2_CounterStepsByOne ==
    [][event' # "reset" =>
         turn_count' = turn_count + (IF ExchangeCompleted THEN 1 ELSE 0)]_vars

ResetState ==
    /\ chat_history = << >>
    /\ mode_2_chat = << >>
    /\ turn_count = 0
    /\ roleplay_active

C4_ResetYieldsFreshSession ==
    [][(event' = "reset" => ResetState') /\ (event = "reset" => ResetState')]_vars

\* Reset Session pressed on a session that was finished and graded.
C4_Witness ==
    /\ event = "reset"
    /\ graded
    /\ rerun_pending

\* C5 (as claimed): whenever the Session Complete block shows a score, that
\* score was computed from the transcript of the session on display.
C5_GradedOnOwnTranscript ==
    ("session_complete" \in shown /\ "final_score" \in shown)
        => graded_transcript = Transcript(chat_history)

\* C6: the sheet changes only by gaining one last row after the unchanged
\* old rows, that row carrying the agent name and the score and feedback
\* the grading computed and returned; and a grading that returns no error
\* does add the row.
LastRow(rows) == rows[Len(rows)]

C6_AppendPreservesRows ==
    [][/\ (sheet' # sheet) =>
            /\ Len(sheet') = Len(sheet) + 1
            /\ SubSeq(sheet', 1, Len(sheet)) = sheet
            /\ LastRow(sheet').agent = agent_name'
            /\ LastRow(sheet').score = final_score'
            /\ LastRow(sheet').feedback = final_feedback'
            /\ model_grade' = [score |-> final_score', feedback |-> final_feedback']
       /\ (~graded /\ graded' /\ final_feedback' # ErrorFeedback) => sheet' # sheet]_vars

\* A grading appended its row to a sheet that already held rows.
C6_Witness ==
    /\ "sheet_update" \in calls
    /\ Len(sheet) >= 2
    /\ LastRow(sheet).score = final_score
    /\ sheet[1] = OldRow

\* C7 (as claimed): when the model has computed a grade, the score and
\* feedback shown are the computed ones, whatever the spreadsheet did.
C7_PersistFailureKeepsScore ==
    (model_grade # NoGrade /\ "final_score" \in shown)
        => (final_score = model_grade.score /\ final_feedback = model_grade.feedback)

\* C8 (as claimed): a clip under the minimum size read by a turn handler is
\* rejected as "no audio captured", with no model or speech call and no
\* change of the conversation.
C8_ShortAudioRejected ==
    (submitted # NoAudio /\ submitted < MinAudioBytes)
        => ("model" \notin calls /\ "tts" \notin calls /\ "no_audio" \in shown)

\* C9: what a fetch returns and what a run does on an empty knowledge base.
FetchFailed ==
    \/ drive_service = None
    \/ ~fetch.listOk
    \/ fetch.items = << >>
    \/ fetch.failAt > 0

FetchReturnsAllOrNothing ==
    /\ (fetch.attempted /\ FetchFailed) => (fetch.text = EmptyText /\ fetch.files = << >>)
    /\ (fetch.attempted /\ ~FetchFailed) => (fetch.text = fetch.items /\ fetch.files = fetch.items)
    /\ kb_text = file_names
    /\ kb_text = EmptyText \/ kb_text \in Listings

\* A run on an empty knowledge base that the startup check let through.
EmptyKBRun ==
    /\ kb_text = EmptyText
    /\ ~rerun_pending
    /\ event # "none"
    /\ required_secrets \subseteq secrets
NoModelCall == "model" \notin calls /\ "grade_model" \notin calls /\ "tts" \notin calls

\* C9 (as claimed): the fetch returns empty text and an empty file list when
\* the folder lists no PDF or any remote step fails, and nothing partial is
\* stored; a run on an empty knowledge base shows the 'knowledge base empty'
\* notice in either mode, calls no model and does not crash.
C9_EmptyKBNotice ==
    /\ FetchReturnsAllOrNothing
    /\ EmptyKBRun => ("kb_empty" \in shown /\ NoModelCall /\ "exception" \notin shown)

\* C10 (as claimed): once the first load has left the knowledge base empty,
\* the remote file store is contacted only by Reload Training Data.
C10_NoAutomaticRefetch ==
    [][(event # "none" /\ kb_text = EmptyText /\ "drive" \in calls')
          => event' = "reload"]_vars

\* C11 (as claimed): when the API key, the service-account credentials or
\* the folder identifier is absent, every run shows the setup screen and
\* nothing after the check runs: no model selection, no knowledge-base
\* fetch, no other message, no roleplay widget.
AllSecretsPresent ==
    {"GOOGLE_API_KEY", "drive.folder_id", "connections.gsheets"} \subseteq secrets

C11_AnyMissingSecretBlocks ==
    (event # "none" /\ ~AllSecretsPresent) =>
        /\ shown = {"setup_needed"}
        /\ active_model = None
        /\ ~fetch.attempted
        /\ calls = {}
        /\ rendered = {}

====
